---- MODULE Spec2Model ----
(***************************************************************************)
(* Model of src/assistant.py: the Conversation (message history and the    *)
(* context-selection policy of to_request), the streaming Client.complete  *)
(* generator, and the drivers main / interactive / one_shot.               *)
(*                                                                         *)
(* Text is a sequence of characters; a Message is a record                 *)
(* [role, content, pin]; a message object is identified by its position in *)
(* Conversation.messages (the list is append-only).                        *)
(***************************************************************************)
EXTENDS Integers, Sequences, FiniteSets, TLC

\* ---------------------------------------------------------------- bounds
MaxSeed == 2        \* seed messages given to Conversation(messages=[...])
MaxAdd == 2         \* add_message calls in the Conversation-level specification
MaxFrames == 3      \* lines of response body the server sends during one run
MaxTurns == 2       \* exchanges of one interactive session

\* ------------------------------------------------------------- constants
DEFAULT_MODEL == "gpt-3.5-turbo"
DEFAULT_TEMPERATURE == "0.42"
None == "None"

Roles == {"system", "user", "assistant"}
Whitespace == {" "}
Char == {" ", "a"}
EmptyText == << >>
SomeText == <<"a">>

\* ------------------------------------------------------------ variables
VARIABLES
    messages,        \* Conversation.messages
    keep_messages,   \* Conversation.keep_messages
    pin_first,       \* Conversation.pin_first
    msgcnt,          \* Conversation._msgcnt
    seeded,          \* history: number of messages given to the constructor
    given,           \* history: the argument of the last add_message call, as passed
    req,             \* the result of the last to_request() call, None before it
    pc,              \* position of the foreground flow
    driver,          \* which of interactive / one_shot main has called, None before
    turns,           \* history: user turns read by the driver
    outcome,         \* how the process ended: running, return0, return1, uncaught
    exc,             \* the exception that ended it, None otherwise
    interrupted,     \* history: where a KeyboardInterrupt was delivered, None otherwise
    status,          \* resp.status_code of the current complete call
    body,            \* the lines the server has sent for the current call
    sent,            \* history: lines of response body sent to this process so far
    posted,          \* history: the json body of the last POST, None before it
    pos,             \* lines of body consumed by resp.iter_lines()
    body_read,       \* the response body has been read to its end
    content_began,   \* Client.complete local
    output_buffer,   \* Client.complete local (StringIO contents)
    yielded,         \* history: deltas yielded by the current complete call
    gen,             \* state of the generator returned by complete
    warm             \* the thread running Client.connect

convVars == <<messages, keep_messages, pin_first, msgcnt>>
histVars == <<seeded, given>>
driverVars == <<pc, driver, turns, outcome, exc, interrupted>>
clientVars == <<status, body, pos, body_read, content_began, output_buffer, yielded, gen>>
vars == <<convVars, histVars, req, driverVars, clientVars, sent, posted, warm>>

\* ------------------------------------------------------------- helpers
Range(s) == {s[i] : i \in 1..Len(s)}

reversed(s) == [i \in 1..Len(s) |-> s[Len(s) + 1 - i]]

SeqsUpTo(S, n) == UNION {[1..m -> S] : m \in 0..n}

\* Message(role, content, pin)
Message(role, content, pin) == [role |-> role, content |-> content, pin |-> pin]

Message_user(content) == Message("user", content, FALSE)

Message_assistant(content) == Message("assistant", content, FALSE)

\* no add_message call yet
NoMessage == Message(None, EmptyText, FALSE)

\* no to_request call yet
NoRequest == [model |-> None, temperature |-> None, messages |-> << >>, stream |-> FALSE]

\* no response yet
NoStatus == 0

\* ---------------------------------------------------------- Conversation
\* The loop of to_request: scan positions i, i-1, .., 1 of msgs; acc is req_msgs
\* (positions of the selected messages, most recent first), cnt the running
\* count of selected non-pinned messages.
\* scan with the limit tested before the pin flag
RECURSIVE scan_limit_first(_, _, _, _, _)
scan_limit_first(msgs, k, i, cnt, acc) ==
    IF i = 0 THEN acc
    ELSE IF k <= 0 \/ cnt < k THEN
        scan_limit_first(msgs, k, i - 1, IF msgs[i].pin THEN cnt ELSE cnt + 1, Append(acc, i))
    ELSE scan_limit_first(msgs, k, i - 1, cnt, acc)

\* scan with the limit off by one
RECURSIVE scan_off_by_one(_, _, _, _, _)
scan_off_by_one(msgs, k, i, cnt, acc) ==
    IF i = 0 THEN acc
    ELSE IF msgs[i].pin THEN scan_off_by_one(msgs, k, i - 1, cnt, Append(acc, i))
    ELSE IF k <= 0 \/ cnt <= k THEN scan_off_by_one(msgs, k, i - 1, cnt + 1, Append(acc, i))
    ELSE scan_off_by_one(msgs, k, i - 1, cnt, acc)

\* scan that takes only keep_messages = 0 as unlimited
RECURSIVE scan_zero_only(_, _, _, _, _)
scan_zero_only(msgs, k, i, cnt, acc) ==
    IF i = 0 THEN acc
    ELSE IF msgs[i].pin THEN scan_zero_only(msgs, k, i - 1, cnt, Append(acc, i))
    ELSE IF k = 0 \/ cnt < k THEN scan_zero_only(msgs, k, i - 1, cnt + 1, Append(acc, i))
    ELSE scan_zero_only(msgs, k, i - 1, cnt, acc)

\* scan with the limit one too low
RECURSIVE scan_strict_limit(_, _, _, _, _)
scan_strict_limit(msgs, k, i, cnt, acc) ==
    IF i = 0 THEN acc
    ELSE IF msgs[i].pin THEN scan_strict_limit(msgs, k, i - 1, cnt, Append(acc, i))
    ELSE IF k <= 0 \/ cnt + 1 < k THEN
        scan_strict_limit(msgs, k, i - 1, cnt + 1, Append(acc, i))
    ELSE scan_strict_limit(msgs, k, i - 1, cnt, acc)

RECURSIVE scan(_, _, _, _, _)
scan(msgs, k, i, cnt, acc) ==
    IF i = 0 THEN acc
    ELSE IF msgs[i].pin THEN scan(msgs, k, i - 1, cnt, Append(acc, i))
    ELSE IF k <= 0 \/ cnt < k THEN scan(msgs, k, i - 1, cnt + 1, Append(acc, i))
    ELSE scan(msgs, k, i - 1, cnt, acc)

\* req_msgs emitted as collected, most recent first
req_msgs_not_reversed(msgs, k) == scan(msgs, k, Len(msgs), 0, << >>)

\* positions of the emitted messages, in the order they are emitted
req_msgs(msgs, k) == reversed(scan(msgs, k, Len(msgs), 0, << >>))

to_request(msgs, k) ==
    LET sel == req_msgs(msgs, k) IN
    [model |-> DEFAULT_MODEL,
     temperature |-> DEFAULT_TEMPERATURE,
     messages |-> [j \in 1..Len(sel) |->
                     [role |-> msgs[sel[j]].role, content |-> msgs[sel[j]].content]],
     stream |-> TRUE]

\* to_request that trims the stored history to what it sends
to_request_call_trimming ==
    /\ req' = to_request(messages, keep_messages)
    /\ messages' = [j \in 1..Len(req_msgs(messages, keep_messages)) |->
                       messages[req_msgs(messages, keep_messages)[j]]]
    /\ UNCHANGED <<keep_messages, pin_first, msgcnt>>

\* the effect of calling conversation.to_request() on the state
to_request_call ==
    /\ req' = to_request(messages, keep_messages)
    /\ UNCHANGED convVars

\* pin-on-insert with the comparison off by one
pinned_on_insert_inclusive(msg, cnt, pf) ==
    IF cnt <= pf THEN [msg EXCEPT !.pin = TRUE] ELSE msg

\* pin-on-insert that pins one message fewer
pinned_on_insert_one_short(msg, cnt, pf) ==
    IF cnt + 1 < pf THEN [msg EXCEPT !.pin = TRUE] ELSE msg

\* the Message add_message appends, given the counter and pin_first
pinned_on_insert(msg, cnt, pf) ==
    IF cnt < pf THEN [msg EXCEPT !.pin = TRUE] ELSE msg

\* the effect of calling conversation.add_message(msg) on the state
add_message(msg) ==
    /\ messages' = Append(messages, pinned_on_insert(msg, msgcnt, pin_first))
    /\ msgcnt' = msgcnt + 1
    /\ given' = msg
    /\ UNCHANGED <<keep_messages, pin_first, seeded>>

add_user(text) == add_message(Message_user(text))

add_assistant(text) == add_message(Message_assistant(text))

\* ------------------------------------------------------------------ text
RECURSIVE lstrip(_)
lstrip(s) ==
    IF s = << >> THEN s
    ELSE IF s[1] \in Whitespace THEN lstrip(Tail(s))
    ELSE s

\* str.strip()
strip(s) == reversed(lstrip(reversed(lstrip(s))))

\* ------------------------------------------------- Conversation-level runs
\* Every Message the callers of the Conversation API may construct.
MsgDomain == {Message(r, SomeText, p) : r \in {"system", "user"}, p \in BOOLEAN}

KeepValues == -1..2

PinValues == 0..2

\* the state of the variables of the driver and the client while only the
\* Conversation is exercised
Idle ==
    /\ pc = "api"
    /\ driver = None
    /\ turns = 0
    /\ outcome = "running"
    /\ exc = None
    /\ interrupted = None
    /\ status = NoStatus
    /\ body = << >>
    /\ pos = 0
    /\ body_read = FALSE
    /\ content_began = FALSE
    /\ output_buffer = EmptyText
    /\ yielded = << >>
    /\ gen = None
    /\ sent = 0
    /\ posted = NoRequest
    /\ warm = None

\* Conversation(keep_messages=k, pin_first=p, messages=msgs)
Conversation_init(k, p, msgs) ==
    /\ keep_messages = k
    /\ pin_first = p
    /\ messages = msgs
    /\ msgcnt = 0
    /\ seeded = Len(msgs)
    /\ given = NoMessage

InitConv ==
    /\ \E k \in KeepValues, p \in PinValues, msgs \in SeqsUpTo(MsgDomain, MaxSeed) :
          Conversation_init(k, p, msgs)
    /\ req = NoRequest
    /\ Idle

AddMessage ==
    /\ pc = "api"
    /\ msgcnt < MaxAdd
    /\ \E msg \in MsgDomain : add_message(msg)
    /\ UNCHANGED <<req, driverVars, clientVars, sent, posted, warm>>

ToRequest ==
    /\ pc = "api"
    /\ to_request_call
    /\ UNCHANGED <<histVars, driverVars, clientVars, sent, posted, warm>>

\* an assignment of pin_first that also pins the messages added so far, up to
\* the new value
SetPinFirst_retroactive ==
    /\ pc = "api"
    /\ \E p \in PinValues :
          /\ p # pin_first
          /\ pin_first' = p
          /\ messages' = [i \in 1..Len(messages) |->
                             IF i > seeded /\ i - seeded <= p
                             THEN [messages[i] EXCEPT !.pin = TRUE]
                             ELSE messages[i]]
    /\ UNCHANGED <<keep_messages, msgcnt, histVars, req, driverVars, clientVars, sent, posted, warm>>

\* conv.pin_first = ...
SetPinFirst ==
    /\ pc = "api"
    /\ \E p \in PinValues : p # pin_first /\ pin_first' = p
    /\ UNCHANGED <<messages, keep_messages, msgcnt, histVars, req, driverVars, clientVars, sent, posted, warm>>

\* conv.keep_messages = ...
SetKeepMessages ==
    /\ pc = "api"
    /\ \E k \in KeepValues : k # keep_messages /\ keep_messages' = k
    /\ UNCHANGED <<messages, pin_first, msgcnt, histVars, req, driverVars, clientVars, sent, posted, warm>>

NextConv == AddMessage \/ ToRequest \/ SetPinFirst \/ SetKeepMessages

SpecConv == InitConv /\ [][NextConv]_vars

\* ------------------------------------------------------------- templates
SYSTEM_MSG == <<"a">>

\* TplMan._get_default().template
DefaultTemplate ==
    [keep_messages |-> 0, pin_first |-> 0,
     messages |-> <<Message("system", SYSTEM_MSG, TRUE)>>]

\* a preset of chat_templates.yml: a seed exchange that is not pinned
CustomTemplate ==
    [keep_messages |-> 2, pin_first |-> 1,
     messages |-> <<Message("system", SYSTEM_MSG, FALSE), Message("user", SomeText, FALSE)>>]

\* TplMan._tpls
Templates == [assistant |-> DefaultTemplate, custom |-> CustomTemplate]

\* values of the positional argument `template`
TemplateArgs == {None, "custom", "missing"}

\* what TplMan.fuzzy_find does under --pick-template: raises FzfError (fzf is
\* missing or nothing was selected) or returns the template selected
FzfResults == {"FzfError", "assistant", "custom"}

\* values of --keep-messages and --pin-first: {} when the option is not given
\* (args.keep_messages is None), {n} when it is given as n
KeepArgs == {{}, {1}}

PinArgs == {{}, {2}}

\* the value of an option that is given
value(opt) == CHOOSE n \in opt : TRUE

\* ------------------------------------------------------------ the stream
Deltas == {EmptyText, <<" ">>, <<"a">>}

\* One line of the response body, by what the loop of complete does with it:
\*   other      does not start with "data: "
\*   done       "data: [DONE]..."
\*   content    "data: " + JSON with choices[0].delta.content = text
\*   nocontent  "data: " + JSON object with a key of the path missing
\*   nochoices  "data: " + JSON object whose `choices` is an empty list
\*   nullcontent "data: " + JSON with choices[0].delta.content = null
\*   badjson    "data: " + text that json.loads rejects
Line(kind, text) == [kind |-> kind, content |-> text]

Lines ==
    {Line(k, EmptyText) :
        k \in {"other", "done", "nocontent", "nochoices", "nullcontent", "badjson"}}
        \cup {Line("content", d) : d \in Deltas}

Bodies(n) == SeqsUpTo(Lines, n)

\* requests.ConnectionError
NetError == "ConnectionError"

\* resp.status_code
Statuses == {200, 300, 404}

\* Response.raise_for_status(): raises HTTPError for 4xx and 5xx only
raises_for_status(st) == (400 <= st /\ st < 500) \/ (500 <= st /\ st < 600)

\* what one `try:` body of the loop raises for a line: None if nothing.
\* A null content fails in content.strip() before content began and in
\* output_buffer.write(content) after it.
raised_by(line, began) ==
    CASE line.kind = "badjson" -> "JSONDecodeError"
      [] line.kind = "nocontent" -> "KeyError"
      [] line.kind = "nochoices" -> "IndexError"
      [] line.kind = "nullcontent" -> IF began THEN "TypeError" ELSE "AttributeError"
      [] OTHER -> None

\* a handler that catches IndexError in place of KeyError
caught_index_only(e) == e = "IndexError"

\* `except KeyError: continue`
caught(e) == e = "KeyError"

\* `data.startswith("[DONE]")` that never matches
stream_done_missed(line) == FALSE

\* `data.startswith("[DONE]")`
stream_done(line) == line.kind = "done"

\* the buffer accumulating the stripped delta
accumulate_stripped(buffer, content) == buffer \o strip(content)

\* output_buffer.write(content)
accumulate(buffer, content) == buffer \o content

\* suppression of empty deltas only, not of whitespace-only ones
suppressed_empty_only(began, content) == ~began /\ content = EmptyText

\* `if not content_began: if not content.strip(): continue`
suppressed(began, content) == ~began /\ strip(content) = EmptyText

\* ------------------------------------------------------------ the driver
\* an exception leaves main: traceback, the process ends abnormally
Uncaught(e) ==
    /\ outcome' = "uncaught"
    /\ exc' = e
    /\ pc' = "exited"

\* main returns code
Return(code, e) ==
    /\ outcome' = code
    /\ exc' = e
    /\ pc' = "exited"

\* what main does with an exception raised inside interactive / one_shot
main_except(e) ==
    IF e = "HTTPError" THEN Return("return1", e) ELSE Uncaught(e)

Init ==
    /\ messages = << >>
    /\ keep_messages = 0
    /\ pin_first = 0
    /\ msgcnt = 0
    /\ seeded = 0
    /\ given = NoMessage
    /\ req = NoRequest
    /\ pc = "main"
    /\ driver = None
    /\ turns = 0
    /\ outcome = "running"
    /\ exc = None
    /\ interrupted = None
    /\ status = NoStatus
    /\ body = << >>
    /\ pos = 0
    /\ body_read = FALSE
    /\ content_began = FALSE
    /\ output_buffer = EmptyText
    /\ yielded = << >>
    /\ gen = None
    /\ sent = 0
    /\ posted = NoRequest
    /\ warm = None

\* main, up to conv.keep_messages = args.keep_messages
MainConfig ==
    /\ pc = "main"
    /\ \E list \in BOOLEAN, pick_template \in BOOLEAN, fzf \in FzfResults,
          name \in TemplateArgs, k \in KeepArgs, p \in PinArgs :
          IF list THEN
              /\ Return("return0", None)
              /\ UNCHANGED <<convVars, histVars>>
          ELSE IF pick_template /\ fzf = "FzfError" THEN
              /\ Return("return1", "FzfError")
              /\ UNCHANGED <<convVars, histVars>>
          ELSE IF ~pick_template /\ name # None /\ name \notin DOMAIN Templates THEN
              /\ Return("return1", "KeyError")
              /\ UNCHANGED <<convVars, histVars>>
          ELSE
              LET tpl == Templates[IF pick_template THEN fzf
                                   ELSE IF name = None THEN "assistant" ELSE name] IN
              /\ messages' = tpl.messages
              /\ seeded' = Len(tpl.messages)
              /\ msgcnt' = 0
              /\ pin_first' = IF p # {} THEN value(p) ELSE tpl.pin_first
              /\ keep_messages' = IF k # {} THEN value(k) ELSE tpl.keep_messages
              /\ pc' = "get_apikey"
              /\ UNCHANGED <<given, outcome, exc>>
    /\ UNCHANGED <<req, driver, turns, interrupted, clientVars, sent, posted, warm>>

\* MainClient with the warm-up thread started before the key is looked up
MainClient_warm_first ==
    /\ pc = "get_apikey"
    /\ \E haskey \in BOOLEAN, isatty \in BOOLEAN :
          IF ~haskey THEN
              /\ Return("return1", "KeyError")
              /\ warm' = "started"
              /\ UNCHANGED driver
          ELSE IF isatty THEN
              /\ driver' = "interactive"
              /\ warm' = "started"
              /\ pc' = "input"
              /\ UNCHANGED <<outcome, exc>>
          ELSE
              /\ driver' = "one_shot"
              /\ pc' = "stdin_read"
              /\ UNCHANGED <<outcome, exc, warm>>
    /\ UNCHANGED <<convVars, histVars, req, turns, interrupted, clientVars, sent, posted>>

\* client = Client(get_apikey()), then interactive(...) up to the first input()
\* or one_shot(...) up to sys.stdin.read()
MainClient ==
    /\ pc = "get_apikey"
    /\ \E haskey \in BOOLEAN, isatty \in BOOLEAN :
          IF ~haskey THEN
              /\ Return("return1", "KeyError")
              /\ UNCHANGED <<driver, warm>>
          ELSE IF isatty THEN
              /\ driver' = "interactive"
              /\ warm' = "started"
              /\ pc' = "input"
              /\ UNCHANGED <<outcome, exc>>
          ELSE
              /\ driver' = "one_shot"
              /\ pc' = "stdin_read"
              /\ UNCHANGED <<outcome, exc, warm>>
    /\ UNCHANGED <<convVars, histVars, req, turns, interrupted, clientVars, sent, posted>>

\* Client.connect in its thread: self._session.options(...) is issued
ConnectBegin ==
    /\ warm = "started"
    /\ outcome = "running"
    /\ warm' = "options"
    /\ UNCHANGED <<convVars, histVars, req, driverVars, clientVars, sent, posted>>

\* Client.connect in its thread: the answer, or the RequestException, is dropped
ConnectEnd ==
    /\ warm = "options"
    /\ outcome = "running"
    /\ warm' = "done"
    /\ UNCHANGED <<convVars, histVars, req, driverVars, clientVars, sent, posted>>

RawInputs == {EmptyText, <<" ">>, <<"a", " ">>}

\* client.complete(conv): a new generator object, nothing of its body has run
new_generator ==
    /\ gen' = "created"
    /\ status' = NoStatus
    /\ body' = << >>
    /\ pos' = 0
    /\ body_read' = FALSE
    /\ content_began' = FALSE
    /\ output_buffer' = EmptyText
    /\ yielded' = << >>

\* Input with the warm-up thread started on every pass of the loop
Input_rewarming ==
    /\ pc = "input"
    /\ \E raw \in RawInputs :
          LET user_msg == strip(raw) IN
          IF user_msg = EmptyText THEN
              /\ Return("return0", None)
              /\ UNCHANGED <<convVars, histVars, turns, clientVars, warm>>
          ELSE
              /\ turns < MaxTurns
              /\ add_user(user_msg)
              /\ turns' = turns + 1
              /\ new_generator
              /\ warm' = "started"
              /\ pc' = "complete"
              /\ UNCHANGED <<outcome, exc>>
    /\ UNCHANGED <<req, driver, interrupted, sent, posted>>

\* Input with the empty turn stored before the loop is left
Input_storing_empty ==
    /\ pc = "input"
    /\ \E raw \in RawInputs :
          LET user_msg == strip(raw) IN
          IF user_msg = EmptyText THEN
              /\ add_user(user_msg)
              /\ Return("return0", None)
              /\ UNCHANGED <<turns, clientVars>>
          ELSE
              /\ turns < MaxTurns
              /\ add_user(user_msg)
              /\ turns' = turns + 1
              /\ new_generator
              /\ pc' = "complete"
              /\ UNCHANGED <<outcome, exc>>
    /\ UNCHANGED <<req, driver, interrupted, sent, posted, warm>>

\* interactive: one pass of `while True` up to the call of client.complete
Input ==
    /\ pc = "input"
    /\ \E raw \in RawInputs :
          LET user_msg == strip(raw) IN
          IF user_msg = EmptyText THEN
              /\ Return("return0", None)
              /\ UNCHANGED <<convVars, histVars, turns, clientVars>>
          ELSE
              /\ turns < MaxTurns
              /\ add_user(user_msg)
              /\ turns' = turns + 1
              /\ new_generator
              /\ pc' = "complete"
              /\ UNCHANGED <<outcome, exc>>
    /\ UNCHANGED <<req, driver, interrupted, sent, posted, warm>>

\* interactive: KeyboardInterrupt inside input()
InterruptInput ==
    /\ pc = "input"
    /\ interrupted' = "input"
    /\ Return("return0", None)
    /\ UNCHANGED <<convVars, histVars, req, driver, turns, clientVars, sent, posted, warm>>

\* one_shot up to the call of client.complete
StdinRead ==
    /\ pc = "stdin_read"
    /\ \E raw \in RawInputs : add_user(strip(raw))
    /\ turns' = turns + 1
    /\ new_generator
    /\ pc' = "complete"
    /\ UNCHANGED <<req, driver, outcome, exc, interrupted, sent, posted, warm>>

\* one_shot: KeyboardInterrupt inside sys.stdin.read()
InterruptStdin ==
    /\ pc = "stdin_read"
    /\ interrupted' = "stdin_read"
    /\ Uncaught("KeyboardInterrupt")
    /\ UNCHANGED <<convVars, histVars, req, driver, turns, clientVars, sent, posted, warm>>

\* -------------------------------------------------------- Client.complete
\* an exception leaves the generator and reaches main through the driver
generator_raises(e) ==
    /\ gen' = "raised"
    /\ main_except(e)

\* the reply stored with messages.append instead of add_assistant
complete_returns_bypassing_add ==
    /\ messages' = Append(messages, Message_assistant(output_buffer))
    /\ UNCHANGED <<keep_messages, pin_first, msgcnt, histVars>>
    /\ gen' = "done"
    /\ IF driver = "interactive"
       THEN pc' = "input" /\ UNCHANGED <<outcome, exc>>
       ELSE Return("return0", None)

\* the statement after the `with` block, then the driver's code after its
\* `for content in client.complete(conv)` loop
complete_returns ==
    /\ add_assistant(output_buffer)
    /\ gen' = "done"
    /\ IF driver = "interactive"
       THEN pc' = "input" /\ UNCHANGED <<outcome, exc>>
       ELSE Return("return0", None)

\* first next() of the generator: complete up to the call of self._session.post
CompleteBegin ==
    /\ pc = "complete"
    /\ to_request_call
    /\ gen' = "running"
    /\ pc' = "post"
    /\ UNCHANGED <<histVars, driver, turns, outcome, exc, interrupted, status, body, pos,
                   body_read, content_began, output_buffer, yielded, sent, posted, warm>>

\* the request body with the whole history instead of the selection
post_json_whole_history ==
    [req EXCEPT !.messages =
        [j \in 1..Len(messages) |->
            [role |-> messages[j].role, content |-> messages[j].content]]]

\* `json=req` of self._session.post(...)
post_json == req

\* self._session.post(..., stream=True) and the status check: the lines of the
\* body are read later, one by one, as the server sends them
Post ==
    /\ pc = "post"
    /\ \E failed \in BOOLEAN, st \in Statuses :
          /\ posted' = post_json
          /\ IF failed THEN
                /\ generator_raises(NetError)
                /\ UNCHANGED <<status, body_read>>
             ELSE
                /\ status' = st
                /\ body_read' = (st # 200)
                /\ IF st # 200 /\ raises_for_status(st)
                   THEN generator_raises("HTTPError")
                   ELSE pc' = "stream" /\ UNCHANGED <<gen, outcome, exc>>
    /\ UNCHANGED <<convVars, histVars, req, driver, turns, interrupted, body, pos, sent,
                   content_began, output_buffer, yielded, warm>>

\* the loop of complete is left at this line, by `break` or by an exception
\* that `except KeyError` does not catch
leaves_loop(line, began) ==
    /\ line.kind # "other"
    /\ \/ stream_done(line)
       \/ raised_by(line, began) # None /\ ~caught(raised_by(line, began))

\* one iteration of `for line in resp.iter_lines()`, up to the next read: the
\* body ends, or the server sends one more line; when the loop is left at that
\* line, `rest` is what the server sends after it and nobody reads
ReadLine ==
    /\ pc = "stream"
    /\ \E eof \in BOOLEAN :
       IF eof \/ sent = MaxFrames THEN
          /\ complete_returns
          /\ body_read' = TRUE
          /\ UNCHANGED <<body, pos, sent, content_began, output_buffer, yielded>>
       ELSE
          \E line \in Lines :
          \E rest \in (IF leaves_loop(line, content_began)
                       THEN Bodies(MaxFrames - sent - 1) ELSE {<< >>}) :
          /\ body' = Append(body, line) \o rest
          /\ sent' = sent + 1 + Len(rest)
          /\ pos' = pos + 1
          /\ UNCHANGED body_read
          /\ CASE line.kind = "other" ->
                    UNCHANGED <<convVars, histVars, pc, outcome, exc, gen, content_began,
                                output_buffer, yielded>>
               [] line.kind # "other" /\ stream_done(line) ->
                    /\ complete_returns
                    /\ UNCHANGED <<content_began, output_buffer, yielded>>
               [] OTHER ->
                    IF caught(raised_by(line, content_began)) THEN
                        UNCHANGED <<convVars, histVars, pc, outcome, exc, gen, content_began,
                                    output_buffer, yielded>>
                    ELSE IF raised_by(line, content_began) # None THEN
                        /\ generator_raises(raised_by(line, content_began))
                        /\ UNCHANGED <<convVars, histVars, content_began, output_buffer,
                                       yielded>>
                    ELSE IF suppressed(content_began, line.content) THEN
                        UNCHANGED <<convVars, histVars, pc, outcome, exc, gen, content_began,
                                    output_buffer, yielded>>
                    ELSE
                        /\ content_began' = TRUE
                        /\ output_buffer' = accumulate(output_buffer, line.content)
                        /\ yielded' = Append(yielded, line.content)
                        /\ UNCHANGED <<convVars, histVars, pc, outcome, exc, gen>>
    /\ UNCHANGED <<req, driver, turns, interrupted, status, posted, warm>>

\* KeyboardInterrupt while the generator waits for the network
InterruptComplete ==
    /\ pc \in {"post", "stream"}
    /\ interrupted' = pc
    /\ gen' = "raised"
    /\ Uncaught("KeyboardInterrupt")
    /\ UNCHANGED <<convVars, histVars, req, driver, turns, status, body, pos, body_read,
                   content_began, output_buffer, yielded, sent, posted, warm>>

\* InterruptPrint with the text accumulated so far stored on the way out
InterruptPrint_committing ==
    /\ pc = "stream"
    /\ pos >= 1
    /\ body[pos].kind = "content"
    /\ content_began
    /\ interrupted' = "print"
    /\ gen' = "closed"
    /\ Uncaught("KeyboardInterrupt")
    /\ add_assistant(output_buffer)
    /\ UNCHANGED <<req, driver, turns, status, body, pos, body_read, content_began,
                   output_buffer, yielded, sent, posted, warm>>

\* KeyboardInterrupt in the body of the driver's `for content in
\* client.complete(conv)` loop, while it prints the delta just yielded: the
\* loop is left with the generator suspended at `yield content`, where it is
\* finalised (GeneratorExit, which `except KeyError` lets through)
InterruptPrint ==
    /\ pc = "stream"
    /\ pos >= 1
    /\ body[pos].kind = "content"
    /\ content_began
    /\ interrupted' = "print"
    /\ gen' = "closed"
    /\ Uncaught("KeyboardInterrupt")
    /\ UNCHANGED <<convVars, histVars, req, driver, turns, status, body, pos, body_read,
                   content_began, output_buffer, yielded, sent, posted, warm>>

\* the connection fails while iter_lines reads the body
StreamError ==
    /\ pc = "stream"
    /\ ~body_read
    /\ generator_raises(NetError)
    /\ UNCHANGED <<convVars, histVars, req, driver, turns, interrupted, status, body, pos,
                   body_read, content_began, output_buffer, yielded, sent, posted, warm>>

Next ==
    \/ MainConfig
    \/ MainClient
    \/ ConnectBegin
    \/ ConnectEnd
    \/ Input
    \/ InterruptInput
    \/ StdinRead
    \/ InterruptStdin
    \/ CompleteBegin
    \/ Post
    \/ ReadLine
    \/ InterruptComplete
    \/ InterruptPrint
    \/ StreamError

Spec == Init /\ [][Next]_vars

\* ===================================================================
\* Properties of Conversation (checked under SpecConv)
\* ===================================================================
\* positions of the messages to_request() emits for the current Conversation
Selected == req_msgs(messages, keep_messages)

\* req is the result of to_request() on the current Conversation
RequestIsCurrent == req # NoRequest /\ req = to_request(messages, keep_messages)

NonPinned(sel) == {j \in 1..Len(sel) : ~messages[sel[j]].pin}

\* C1: for every history and every keep_messages, every message whose pin flag
\* is true is among the messages to_request() emits.
C1_PinnedAlwaysSent ==
    /\ \A i \in 1..Len(messages) : messages[i].pin => i \in Range(Selected)
    /\ Len(to_request(messages, keep_messages).messages) = Len(Selected)

\* a request was built with keep_messages = 1 from a history whose oldest message
\* is pinned and is followed by at least two non-pinned ones: trimming happened
\* and the pinned message was sent
C1_Witness ==
    /\ RequestIsCurrent
    /\ keep_messages = 1
    /\ Len(messages) >= 3
    /\ messages[1].pin /\ ~messages[2].pin /\ ~messages[3].pin
    /\ Len(req.messages) < Len(messages)

\* C2: for keep_messages = k > 0 the number of non-pinned messages that
\* to_request() emits is at most k.
C2_NonPinnedAtMostKeep ==
    keep_messages > 0 => Cardinality(NonPinned(Selected)) <= keep_messages

\* a request built with keep_messages = 2 from a history holding more than two
\* non-pinned messages: exactly two of them were sent
C2_Witness ==
    /\ RequestIsCurrent
    /\ keep_messages = 2
    /\ Cardinality({i \in 1..Len(messages) : ~messages[i].pin}) > 2
    /\ Cardinality(NonPinned(Selected)) = 2

\* C8: the messages to_request() emits are a subsequence of the history: the
\* emitted positions are strictly increasing, and the j-th emitted entry is the
\* role and content of the message at the j-th emitted position.
C8_ChronologicalOrder ==
    LET out == to_request(messages, keep_messages).messages IN
    /\ \A a, b \in 1..Len(Selected) : a < b => Selected[a] < Selected[b]
    /\ Len(out) = Len(Selected)
    /\ \A j \in 1..Len(out) :
          /\ out[j].role = messages[Selected[j]].role
          /\ out[j].content = messages[Selected[j]].content

\* a request holding a pinned and a non-pinned message with a dropped message
\* between them
C8_Witness ==
    /\ RequestIsCurrent
    /\ Len(Selected) >= 2
    /\ \E a \in 1..(Len(Selected) - 1) :
          /\ Selected[a + 1] > Selected[a] + 1
          /\ messages[Selected[a]].pin
          /\ ~messages[Selected[a + 1]].pin

\* C9: a call of to_request() leaves the Conversation as it was: the message
\* list (order, role, content and pin of each message), the insertion counter,
\* keep_messages and pin_first.
C9_ToRequestLeavesConversation ==
    [][ToRequest => UNCHANGED <<messages, keep_messages, pin_first, msgcnt>>]_vars

\* a request that left messages out was built and the history is still whole
C9_Witness ==
    /\ RequestIsCurrent
    /\ Len(req.messages) < Len(messages)
    /\ Len(messages) = seeded + msgcnt
    /\ msgcnt >= 1

\* C10: add_message appends the message at the end of the history, with its pin
\* flag true if the number of earlier add_message calls (seed messages not
\* counted) is less than pin_first and as given otherwise, and increments the
\* insertion counter by one. (Only add_message changes the length of the list.)
C10_AddMessage ==
    [][Len(messages') # Len(messages) =>
          LET earlier == Len(messages) - seeded
              msg == given'
          IN  /\ messages' = Append(messages,
                     Message(msg.role, msg.content,
                             IF earlier < pin_first THEN TRUE ELSE msg.pin))
              /\ msgcnt = earlier
              /\ msgcnt' = msgcnt + 1]_vars

\* the first add_message call on a Conversation with a seed message and
\* pin_first = 1 was given a non-pinned message and stored it pinned
C10_Witness ==
    /\ seeded >= 1
    /\ msgcnt = 1
    /\ pin_first = 1
    /\ ~given.pin
    /\ messages[Len(messages)].pin
    /\ messages[Len(messages)].role = given.role

\* ===================================================================
\* Properties of Client.complete and the drivers (checked under Spec)
\* ===================================================================
\* the step in which the loop over resp.iter_lines() reads line b
ReadsLine(kinds) ==
    /\ pc = "stream"
    /\ pos' = pos + 1
    /\ body'[pos'].kind \in kinds

\* the step in which the stream ends: iter_lines is exhausted, or a [DONE]
\* frame is read
StreamEnds ==
    \/ pc = "stream" /\ pc' # "stream" /\ pos' = pos /\ body_read'
       /\ interrupted' = interrupted /\ exc' # NetError
    \/ ReadsLine({"done"})

\* C3 (as claimed): a `data: ` frame whose payload is not valid JSON is skipped:
\* reading it yields nothing and leaves the stream running, so that later
\* frames are processed.
C3_BadJsonSkipped ==
    [][ReadsLine({"badjson"}) =>
          /\ pc' = "stream"
          /\ gen' = "running"
          /\ outcome' = "running"
          /\ yielded' = yielded]_vars

\* C4: when the stream ends by [DONE] or by end of input, one assistant message
\* holding the accumulated text is appended as add_message appends it (pinned
\* if the insertion counter is below pin_first, counter incremented); no step
\* of the call before that one changes the history, and no delta is yielded in
\* or after the appending step.
C4_AssistantAppendedOnceAtEnd ==
    [][/\ StreamEnds =>
            /\ messages' = Append(messages,
                   Message("assistant", output_buffer, msgcnt < pin_first))
            /\ msgcnt' = msgcnt + 1
            /\ yielded' = yielded
            /\ gen' = "done"
       /\ (pc \in {"complete", "post", "stream"} /\ ~StreamEnds) =>
            UNCHANGED <<messages, msgcnt>>
       /\ (yielded' # yielded /\ yielded' # << >>) =>
            gen' = "running" /\ UNCHANGED <<messages, msgcnt>>]_vars

\* a call that yielded two deltas ended by [DONE] and its reply was stored
\* pinned by the pin_first rule
C4_Witness ==
    /\ gen = "done"
    /\ Len(yielded) >= 2
    /\ pos >= 1 /\ body[pos].kind = "done"
    /\ messages[Len(messages)] = Message("assistant", output_buffer, TRUE)
    /\ output_buffer # EmptyText

\* content values of the frames of b that carry content, up to the first [DONE]
RECURSIVE ContentsBeforeDone(_)
ContentsBeforeDone(b) ==
    IF b = << >> \/ b[1].kind = "done" THEN << >>
    ELSE IF b[1].kind = "content" THEN <<b[1].content>> \o ContentsBeforeDone(Tail(b))
    ELSE ContentsBeforeDone(Tail(b))

\* ds without its maximal leading run of empty or whitespace-only values
RECURSIVE DropLeadingBlank(_)
DropLeadingBlank(ds) ==
    IF ds = << >> THEN ds
    ELSE IF strip(ds[1]) = EmptyText THEN DropLeadingBlank(Tail(ds))
    ELSE ds

\* the call has processed its response body and is over for a reason other
\* than an interrupt or a connection failure
StreamProcessed ==
    /\ gen \in {"done", "raised"}
    /\ status # NoStatus
    /\ exc \notin {"HTTPError", "KeyboardInterrupt", NetError}

\* C5 (as claimed): the deltas yielded are the content values of the well-formed
\* frames before [DONE] without their maximal leading run of empty or
\* whitespace-only values.
C5_LeadingBlankSuppression ==
    StreamProcessed => yielded = DropLeadingBlank(ContentsBeforeDone(body))

\* C6 (as claimed): for a response whose status is not a success status the call
\* ends in an error raised to the caller, having yielded nothing, with the
\* response body fully read.
C6_NonSuccessStatusRaises ==
    (status # NoStatus /\ ~(200 <= status /\ status < 300)) =>
        /\ gen = "raised"
        /\ exc = "HTTPError"
        /\ outcome = "return1"
        /\ yielded = << >>
        /\ body_read

\* C7 (as claimed): an interrupt delivered at a suspension point ends the
\* process cleanly (main returns 0, nothing is reported) and no reply of the
\* interrupted call is committed.
C7_InterruptExitsCleanly ==
    interrupted \in {"input", "post", "stream"} =>
        /\ outcome = "return0"
        /\ exc = None
        /\ gen # "done"

\* C11: once a frame whose payload begins with [DONE] is read the call ends
\* successfully at once: that frame is the last line consumed, the generator
\* has returned without an exception, and what was yielded and stored is what
\* the frames before it gave.
C11_DoneEndsStream ==
    \A i \in 1..pos :
        body[i].kind = "done" =>
            /\ i = pos
            /\ gen = "done"
            /\ exc = None
            /\ outcome # "uncaught"
            /\ yielded = DropLeadingBlank(ContentsBeforeDone(body))
            /\ messages[Len(messages)] .content = output_buffer

\* a call ended by [DONE] with a content frame left unread behind it
C11_Witness ==
    /\ gen = "done"
    /\ pos >= 2 /\ pos < Len(body)
    /\ body[pos].kind = "done"
    /\ body[pos + 1] = Line("content", <<"a">>)
    /\ yielded = <<(<<"a">>)>>
    /\ messages[Len(messages)].content = <<"a">>

\* C12: reading a `data: ` frame whose JSON has no `content` key under
\* choices[0].delta yields nothing, accumulates nothing and leaves the stream
\* running.
C12_NoContentSkipped ==
    [][ReadsLine({"nocontent"}) =>
          /\ pc' = "stream"
          /\ gen' = "running"
          /\ outcome' = "running"
          /\ UNCHANGED <<yielded, output_buffer, content_began, messages, msgcnt>>]_vars

\* a call that read a frame without content and yielded a later delta
C12_Witness ==
    /\ gen = "done"
    /\ Len(body) >= 2
    /\ body[1].kind = "nocontent"
    /\ body[2] = Line("content", <<"a">>)
    /\ yielded = <<(<<"a">>)>>

\* the call has issued its POST and is not over
InFlight == gen = "running" /\ pc = "stream"

\* C13: a call of complete evaluates to_request() once, in its first step and
\* before the POST; the POST carries that result; no later step of the call
\* changes it, so the reply appended at the end is not part of what was sent.
C13_SnapshotBeforePost ==
    [][/\ (pc = "complete" /\ pc' # "complete") =>
            /\ pc' = "post"
            /\ req' = to_request(messages, keep_messages)
            /\ posted' = posted
       /\ (pc = "post" /\ pc' # "post" /\ interrupted' = interrupted) =>
            /\ posted' = req
            /\ posted' = to_request(messages, keep_messages)
       /\ pc \in {"post", "stream"} => req' = req
       /\ pc = "stream" => posted' = posted
       /\ (pc = "stream" /\ gen' = "done") =>
            /\ Len(messages') = Len(messages) + 1
            /\ posted' = to_request(messages, keep_messages)]_vars

\* a call whose request left a message out has ended and appended its reply
C13_Witness ==
    /\ gen = "done"
    /\ keep_messages = 1
    /\ posted # NoRequest
    /\ Len(posted.messages) + 1 < Len(messages)
    /\ posted = to_request(SubSeq(messages, 1, Len(messages) - 1), keep_messages)

\* the flows using Client._session now: the thread inside
\* self._session.options(...), the generator between self._session.post(...)
\* and the end of its `with` block
SessionUsers ==
    (IF warm = "options" THEN {"connect"} ELSE {})
        \cup (IF pc \in {"post", "stream"} THEN {"complete"} ELSE {})

\* one thread, started once and run through once: warm only goes
\* None -> started -> options -> done
WarmOnce ==
    warm' # warm =>
        <<warm, warm'>> \in {<<None, "started">>, <<"started", "options">>,
                             <<"options", "done">>}

\* a step of the thread changes nothing of the Conversation, of the request,
\* of the driver or of the generator
ThreadLeavesForeground ==
    (warm' # warm /\ warm # None) =>
        UNCHANGED <<convVars, histVars, req, driverVars, clientVars, sent, posted>>

\* C14 (as claimed): one background task, started once, which changes nothing
\* of the foreground flow and shares no state with it: the thread never uses
\* the Session while complete uses it.
C14_NoSharedState ==
    /\ warm \in {None, "started", "options", "done"}
    /\ Cardinality(SessionUsers) <= 1

\* C14 (amended): one background task, started once, which never reads or
\* writes the Conversation or any other state of the foreground flow except
\* Client._session.
C14_OneTaskConversationUntouched ==
    [][WarmOnce /\ ThreadLeavesForeground]_vars

\* the thread is inside self._session.options(...) while the generator reads
\* the response it got from the same Session, in the second exchange
C14_Witness ==
    /\ SessionUsers = {"connect", "complete"}
    /\ pc = "stream"
    /\ turns = 2

\* the concatenation of the texts of ds, in order
RECURSIVE Concat(_)
Concat(ds) == IF ds = << >> THEN EmptyText ELSE ds[1] \o Concat(Tail(ds))

\* C15: the buffer always holds the concatenation of the deltas yielded so
\* far, and when the call has run to completion the assistant message it
\* appended holds the concatenation of all the deltas it yielded.
C15_ReplyIsConcatenation ==
    /\ output_buffer = Concat(yielded)
    /\ gen = "done" =>
          messages[Len(messages)] .role = "assistant"
              /\ messages[Len(messages)] .content = Concat(yielded)

\* a completed call that yielded a delta and then a whitespace-only one, after
\* a suppressed blank one
C15_Witness ==
    /\ gen = "done"
    /\ body = <<Line("content", <<" ">>), Line("content", <<"a">>), Line("content", <<" ">>)>>
    /\ yielded = <<(<<"a">>), (<<" ">>)>>
    /\ messages[Len(messages)].content = <<"a", " ">>

\* positions of the pinned and of the non-pinned messages of the history
PinnedPositions == {i \in 1..Len(messages) : messages[i].pin}

NonPinnedPositions == {i \in 1..Len(messages) : ~messages[i].pin}

\* the n greatest elements of S (all of S if it has fewer)
MostRecent(S, n) == {i \in S : Cardinality({j \in S : j > i}) < n}

\* C16: to_request() emits, each once, exactly the pinned messages plus, for
\* keep_messages = k > 0, the min(k, number of non-pinned messages) most recent
\* non-pinned messages and, for keep_messages <= 0, every non-pinned message;
\* an empty history gives an empty list.
C16_ExactSelection ==
    /\ Range(Selected) =
          PinnedPositions \cup
              (IF keep_messages > 0
               THEN MostRecent(NonPinnedPositions, keep_messages)
               ELSE NonPinnedPositions)
    /\ Len(Selected) = Cardinality(Range(Selected))
    /\ Len(to_request(messages, keep_messages).messages) = Len(Selected)
    /\ messages = << >> => to_request(messages, keep_messages).messages = << >>

\* a request built with a negative keep_messages kept every message of a
\* history of pinned and non-pinned messages
C16_Witness ==
    /\ RequestIsCurrent
    /\ keep_messages < 0
    /\ Cardinality(NonPinnedPositions) >= 2
    /\ PinnedPositions # {}
    /\ Len(req.messages) = Len(messages)

\* positions of the first two messages added with add_message
FirstTwoAdded == {i \in 1..Len(messages) : seeded < i /\ i <= seeded + 2}

\* C17: with pin_first = 2 (set before any add_message call) and
\* keep_messages = 1, the first two added messages are pinned and are in what
\* to_request() emits, with at most one non-pinned message; the request of a
\* call in flight is that selection.
C17_FirstTwoPinnedAndSent ==
    (pc # "main" /\ pin_first = 2 /\ keep_messages = 1) =>
        /\ \A i \in FirstTwoAdded : messages[i].pin /\ i \in Range(Selected)
        /\ Cardinality(NonPinned(Selected)) <= 1
        /\ InFlight => posted = to_request(messages, keep_messages)

\* the second call of a session with non-pinned seed messages is in flight:
\* its request holds the two pinned messages and the last user turn only
C17_Witness ==
    /\ InFlight
    /\ pin_first = 2 /\ keep_messages = 1
    /\ seeded = 2 /\ Len(messages) = 5
    /\ ~messages[1].pin /\ ~messages[2].pin
    /\ Selected = <<3, 4, 5>>
    /\ Len(posted.messages) = 3

\* C18: an assignment of pin_first leaves the history as it is, and no step
\* changes the pin flag of a message already in the history.
C18_PinFirstNotRetroactive ==
    [][/\ pin_first' # pin_first => messages' = messages
       /\ Len(messages') >= Len(messages)
       /\ \A i \in 1..Len(messages) : messages'[i].pin = messages[i].pin]_vars

\* pin_first was raised above the number of messages added so far, and the
\* last one added is still not pinned
C18_Witness ==
    /\ msgcnt >= 1
    /\ Len(messages) = seeded + msgcnt
    /\ pin_first >= msgcnt
    /\ ~messages[Len(messages)].pin

\* a request was handed to the network: the warm-up thread was started, or a
\* POST was issued or answered
NetworkUsed ==
    \/ warm # None
    \/ posted # NoRequest
    \/ status # NoStatus
    \/ sent > 0
    \/ gen # None

\* C19: when the credential is missing or the named template is unknown, main
\* returns 1 and no network call was made.
C19_ConfigErrorNoNetwork ==
    exc = "KeyError" =>
        /\ outcome = "return1"
        /\ pc = "exited"
        /\ ~NetworkUsed
        /\ msgcnt = 0

\* main built the Conversation from a template, found no key and returned 1
C19_Witness ==
    /\ exc = "KeyError"
    /\ outcome = "return1"
    /\ seeded >= 1
    /\ driver = None

\* C20 (as claimed): reading a `data: ` frame whose JSON has an empty `choices`
\* list, or a null `content`, yields nothing and leaves the stream running.
C20_OtherShapesSkipped ==
    [][ReadsLine({"nochoices", "nullcontent"}) =>
          /\ pc' = "stream"
          /\ gen' = "running"
          /\ outcome' = "running"
          /\ yielded' = yielded]_vars

\* C21: whatever keep_messages is, the most recent message of a non-empty
\* history is among the messages to_request() emits, and is the last of them;
\* so the request of a call in flight ends with the user turn added just
\* before the call.
C21_MostRecentAlwaysSent ==
    /\ messages # << >> =>
          \A k \in KeepValues :
              LET sel == req_msgs(messages, k) IN
              sel # << >> /\ sel[Len(sel)] = Len(messages)
    /\ InFlight =>
          /\ given.role = "user"
          /\ messages[Len(messages)].content = given.content
          /\ posted.messages # << >>
          /\ posted.messages[Len(posted.messages)] =
                 [role |-> "user", content |-> given.content]

\* the second call of a session is in flight with keep_messages = 1: of the
\* non-pinned messages only the user turn just added was sent
C21_Witness ==
    /\ InFlight
    /\ turns = 2
    /\ keep_messages = 1
    /\ ~messages[Len(messages)].pin
    /\ Cardinality(NonPinnedPositions) >= 2
    /\ Len(posted.messages) < Len(messages)

\* a content frame with text other than whitespace is among the first n lines of b
RealContentIn(b, n) ==
    \E i \in 1..n : b[i].kind = "content" /\ strip(b[i].content) # EmptyText

\* C22: when the stream ends and no content frame read so far carried text
\* other than whitespace, nothing was yielded and the one assistant message
\* appended has the empty string as its content.
C22_EmptyReplyAppended ==
    [][(StreamEnds /\ ~RealContentIn(body', pos')) =>
          /\ yielded' = << >>
          /\ messages' = Append(messages,
                 Message("assistant", EmptyText, msgcnt < pin_first))
          /\ msgcnt' = msgcnt + 1
          /\ gen' = "done"]_vars

\* a call that read a whitespace-only delta and an empty delta ended by [DONE]:
\* nothing was yielded and an empty assistant message was stored
C22_Witness ==
    /\ gen = "done"
    /\ body = <<Line("content", <<" ">>), Line("content", EmptyText), Line("done", EmptyText)>>
    /\ pos = 3
    /\ yielded = << >>
    /\ messages[Len(messages)].role = "assistant"
    /\ messages[Len(messages)].content = EmptyText
    /\ messages[Len(messages) - 1].role = "user"

\* the call of complete in progress is over without having run to completion
Aborted == gen \in {"raised", "closed"}

\* C23: no step of a call of complete other than its completion changes the
\* history or the insertion counter; when a call ends by an exception or by
\* the closing of the generator, the last message of the history is still the
\* user turn the call was made for, and nothing is appended afterwards.
C23_AbortedCallLeavesConversation ==
    [][/\ (gen \in {"created", "running"} /\ gen' # "done") =>
            UNCHANGED <<messages, msgcnt>>
       /\ Aborted' =>
            /\ messages'[Len(messages')] = pinned_on_insert(given', msgcnt' - 1, pin_first')
            /\ given'.role = "user"
            /\ Len(messages') = seeded' + msgcnt'
            /\ msgcnt' = 2 * turns' - 1
       /\ Aborted => UNCHANGED <<messages, msgcnt, gen>>]_vars

\* the driver was interrupted while printing a delta of its second call: the
\* generator was closed with text accumulated, and the history ends with the
\* user turn
C23_Witness ==
    /\ gen = "closed"
    /\ turns = 2
    /\ output_buffer # EmptyText
    /\ yielded # << >>
    /\ messages[Len(messages)].role = "user"
    /\ messages[Len(messages) - 1].role = "assistant"

\* the messages added after the seed messages are user, assistant, user, ...
Alternates ==
    \A i \in (seeded + 1)..Len(messages) :
        messages[i].role = IF (i - seeded) % 2 = 1 THEN "user" ELSE "assistant"

\* the step of interactive that reads an empty user turn: the loop is left
\* from input() without an interrupt
EmptyTurn == pc = "input" /\ pc' = "exited" /\ interrupted' = interrupted

\* C24: the messages added after the seed messages alternate user, assistant;
\* whenever interactive is at the top of its loop each exchange so far has
\* added one user and one assistant message; the step that reads an empty
\* user turn changes nothing of the Conversation, issues no request and ends
\* the loop with main returning 0.
C24_ExchangesAlternate ==
    [][/\ Alternates'
       /\ pc' = "input" =>
            /\ driver' = "interactive"
            /\ Len(messages') = seeded' + 2 * turns'
            /\ msgcnt' = 2 * turns'
       /\ EmptyTurn =>
            /\ UNCHANGED <<messages, msgcnt, req, posted, sent, gen, turns>>
            /\ outcome' = "return0"
            /\ exc' = None]_vars

\* two exchanges of an interactive session completed, then an empty turn
\* ended the loop
C24_Witness ==
    /\ driver = "interactive"
    /\ pc = "exited"
    /\ outcome = "return0"
    /\ interrupted = None
    /\ turns = 2
    /\ gen = "done"
    /\ Len(messages) = seeded + 4
    /\ messages[Len(messages)].role = "assistant"

====
